---- MODULE Spec2Model ----
(***************************************************************************)
(* Admin authentication and abuse control of the portfolio server:         *)
(* the login rate limiter (adminAuthTracker), the session guard, the       *)
(* login / logout / session / rotate-code / settings / portfolio routes    *)
(* of registerRoutes, and the admin-settings and audit-log part of         *)
(* MemStorage.  Times are milliseconds, as Date.now() returns them.        *)
(***************************************************************************)
EXTENDS Integers, Sequences, FiniteSets, TLC

(***************************************************************************)
(* Bounds of the model                                                     *)
(***************************************************************************)
\* operations started and clock advances made in one behaviour of each
\* specification
MaxOpsLogin == 6
MaxTicksLogin == 3
MaxOpsSeq == 5
MaxTicksSeq == 4
MaxOpsSession == 4
MaxTicksSession == 2
MaxOpsRotate == 4
MaxOpsTotp == 3
MaxOpsAudit == 3
MaxTicksAudit == 2
MaxOpsStartup == 3
MaxTicksStartup == 2
MaxOpsPolicy == 3
MaxOpsContact == 6
MaxTicksContact == 2
MaxOpsBackoff == 5
MaxTicksBackoff == 4
MaxOpsSaturate == 11
MaxTicksSaturate == 10
MaxOpsWindow == 4
MaxTicksWindow == 3
MaxOpsIdentities == 4
MaxTicksIdentities == 2

(***************************************************************************)
(* Program constants                                                       *)
(***************************************************************************)
BASE_ADMIN_ATTEMPTS == 3
FIFTEEN_MIN_MS == 900000
EXPONENTIAL_BACKOFF_BASE == 2
MAX_BACKOFF_TIME == 1800000
MAX_BACKOFF_LEVEL == 10
MAX_SESSION_AGE == 1800000
MAX_SUBMISSIONS_PER_HOUR == 5
HOUR_IN_MS == 3600000
\* bcrypt uses the first 72 bytes of its input
BCRYPT_MAX_BYTES == 72
\* the clock reading at construction; Date.now() is positive
StartTime == 1000

IPs == {"ip1", "ip2"}
SIDs == {"s1", "s2"}
\* slots for requests in flight
Reqs == {1, 2}

Min(a, b) == IF a < b THEN a ELSE b
Max(a, b) == IF a > b THEN a ELSE b
\* Math.ceil(a / b) for a >= 0, b > 0
CeilDiv(a, b) == (a + b - 1) \div b
RECURSIVE Pow(_, _)
Pow(b, e) == IF e = 0 THEN 1 ELSE b * Pow(b, e - 1)

(***************************************************************************)
(* Admin codes are character sequences                                     *)
(***************************************************************************)
UpperSeq == <<"A","B","C","D","E","F","G","H","I","J","K","L","M",
              "N","O","P","Q","R","S","T","U","V","W","X","Y","Z">>
LowerSeq == <<"a","b","c","d","e","f","g","h","i","j","k","l","m",
              "n","o","p","q","r","s","t","u","v","w","x","y","z">>
UpperChars == {UpperSeq[i] : i \in 1..26}
LowerChars == {LowerSeq[i] : i \in 1..26}
DigitChars == {"0","1","2","3","4","5","6","7","8","9"}
SpecialChars == {"!","@","#","$","%","^","&","*","(",")","_","+","-","=",
                 "[","]","{","}",";","'",":","\"","\\","|",",",".","<",">",
                 "/","?"}
ToLowerChar(c) ==
    IF c \in UpperChars
    THEN LowerSeq[CHOOSE i \in 1..26 : UpperSeq[i] = c]
    ELSE c
ToLowerCase(s) == [i \in 1..Len(s) |-> ToLowerChar(s[i])]
HasChar(s, set) == \E i \in 1..Len(s) : s[i] \in set

RECURSIVE TrimLeft(_)
TrimLeft(s) == IF s # <<>> /\ Head(s) = " " THEN TrimLeft(Tail(s)) ELSE s
RECURSIVE TrimRight(_)
TrimRight(s) ==
    IF s # <<>> /\ s[Len(s)] = " "
    THEN TrimRight(SubSeq(s, 1, Len(s) - 1)) ELSE s
Trim(s) == TrimRight(TrimLeft(s))

NoCode == <<>>
Admin123 == <<"a","d","m","i","n","1","2","3">>
Password == <<"p","a","s","s","w","o","r","d">>
Digits19 == <<"1","2","3","4","5","6","7","8","9">>
WEAK_PASSWORDS == {Admin123, Password, Digits19, <<"a","d","m","i","n">>,
                   <<"r","o","o","t">>, <<"t","e","s","t">>,
                   <<"d","e","m","o">>}
CommonUserNames == {<<"t","e","s","t">>, <<"d","e","m","o">>,
                    <<"a","d","m","i","n">>, <<"r","o","o","t">>,
                    <<"u","s","e","r">>}

\* sample codes the environment submits
DevCode == <<"d","e","v","s","e","c","r","e","t">>
StrongA == <<"S","t","r","0","n","g","#","C","o","d","e","!","A">>
StrongB == <<"S","t","r","0","n","g","#","C","o","d","e","!","B">>
LongPrefix == [i \in 1..BCRYPT_MAX_BYTES |->
                 IF i = 1 THEN "L" ELSE IF i = 2 THEN "0"
                 ELSE IF i = 3 THEN "#" ELSE "g"]
LongA == LongPrefix \o <<"a">>
LongB == LongPrefix \o <<"b">>
ShortCode == <<"a","b","c">>
PlainLong == <<"p","l","a","i","n","l","o","n","g","c","o","d","e">>

(***************************************************************************)
(* storage.ts: strength policy and bcrypt                                  *)
(***************************************************************************)
ValidateAdminCodeStrength(code, prod) ==
    /\ ~(Len(code) < (IF prod THEN 12 ELSE 8))
    /\ ToLowerCase(code) \notin WEAK_PASSWORDS
    /\ prod => /\ HasChar(code, UpperChars)
               /\ HasChar(code, LowerChars)
               /\ HasChar(code, DigitChars)
               /\ HasChar(code, SpecialChars)

\* validateProductionSecurity testing only that a code is configured
ValidateProductionSecurityPresenceOnly(prod, envCode) ==
    prod => envCode # NoCode

ValidateProductionSecurity(prod, envCode) ==
    prod => /\ envCode # NoCode
            /\ ToLowerCase(envCode) \notin WEAK_PASSWORDS
            /\ ~(Len(envCode) < 12)
            /\ HasChar(envCode, UpperChars)
            /\ HasChar(envCode, LowerChars)
            /\ HasChar(envCode, DigitChars)
            /\ HasChar(envCode, SpecialChars)

\* bcrypt.hash: the key schedule reads the first 72 bytes of the input
BcryptHash(code) == [key |-> SubSeq(code, 1, Min(Len(code), BCRYPT_MAX_BYTES))]
BcryptCompare(plain, hash) == BcryptHash(plain) = hash

(***************************************************************************)
(* shared/schema.ts: request schemas                                       *)
(***************************************************************************)
\* an absent totpCode
NoTotp == [secret |-> "none", window |-> 0]
\* adminVerifySchema.code: min and max see the raw string, the refinements
\* the trimmed one
AdminVerifyCodeOk(raw) ==
    /\ Len(raw) >= 8
    /\ Len(raw) <= 128
    /\ Trim(raw) # Admin123
    /\ Trim(raw) # Password
    /\ Trim(raw) # Digits19
    /\ ToLowerCase(Trim(raw)) \notin CommonUserNames

AdminCodeRotationOk(currentCode, newCode) ==
    /\ Len(currentCode) >= 1
    /\ Len(newCode) >= 12
    /\ Len(newCode) <= 128
    /\ Trim(newCode) # Admin123
    /\ Trim(newCode) # Password
    /\ Trim(newCode) # Digits19
    /\ ToLowerCase(Trim(newCode)) \notin CommonUserNames
    /\ HasChar(Trim(newCode), UpperChars)
    /\ HasChar(Trim(newCode), LowerChars)
    /\ HasChar(Trim(newCode), DigitChars)
    /\ HasChar(Trim(newCode), SpecialChars)

(***************************************************************************)
(* storage.ts: second factor.  A token is the pair the sha1 digest is      *)
(* taken of; BadTotp stands for a value that is not six digits.             *)
(***************************************************************************)
NoTotpSecret == "null"
TotpSecretValue == "TOTPSECRET"
TOTP_WINDOW_MS == 30000
GenerateTotpToken(secret, timeWindow) == [secret |-> secret, window |-> timeWindow]
WrongTotp == [secret |-> "guess", window |-> 0]
BadTotp == [secret |-> "malformed", window |-> 0]
TotpWellFormed(token) == token # BadTotp /\ token # NoTotp
VerifyTotpCode(secret, token, t) ==
    /\ TotpWellFormed(token)
    /\ \/ token = GenerateTotpToken(secret, t \div TOTP_WINDOW_MS)
       \/ token = GenerateTotpToken(secret, (t \div TOTP_WINDOW_MS) - 1)
       \/ token = GenerateTotpToken(secret, (t \div TOTP_WINDOW_MS) + 1)
\* adminVerifySchema.totpCode: optional, six digits
AdminVerifyTotpOk(token) == token = NoTotp \/ TotpWellFormed(token)

(***************************************************************************)
(* State                                                                   *)
(***************************************************************************)
VARIABLES
    isProduction,      \* process.env.NODE_ENV === 'production'
    envAdminCode,      \* process.env.ADMIN_CODE, NoCode when unset
    now,               \* Date.now()
    adminAuthTracker,  \* Map ip -> attempt record
    sessions,          \* session id -> session data
    adminSettings,     \* MemStorage.adminSettings
    auditLogs,         \* MemStorage.auditLogs in insertion order
    portfolio,         \* MemStorage.portfolioData
    req,               \* requests in flight, per slot
    resp,              \* the response sent last
    waitAfterFail,     \* per ip: wait needed right after its last failure,
                       \* 0 when it has none since its last success
    ops,               \* operations started
    ticks,             \* clock advances made
    submissionTracker, \* Map ip -> times of the submissions counted
    contacts,          \* MemStorage.contacts in insertion order
    accepted           \* per ip: request times of the submissions answered 200

vars == <<isProduction, envAdminCode, now, adminAuthTracker, sessions,
          adminSettings, auditLogs, portfolio, req, resp, waitAfterFail,
          ops, ticks, submissionTracker, contacts, accepted>>
\* the state of the contact form
contactVars == <<submissionTracker, contacts, accepted>>

\* MemStorage.adminSettings === undefined
NoSettings == [id |-> "undefined", adminCode |-> [key |-> <<>>],
               totpSecret |-> "null"]
FreshEntry == [attempts |-> <<>>, lastFailTime |-> 0, backoffLevel |-> 0]
\* a session object that carries no login
Anonymous == [isAdminAuthenticated |-> FALSE, adminId |-> "none",
              loginTime |-> 0, lastActivity |-> 0]
SettingsId == "settings-id"
IdleReq == [op |-> "idle", pc |-> "idle", ip |-> "none", sid |-> "none",
            code |-> NoCode, isCodeValid |-> FALSE, totpCode |-> NoTotp,
            newCode |-> NoCode, totpRead |-> NoTotpSecret,
            startedAt |-> 0, recentSubmissions |-> <<>>]
\* the response sent last, with the request it answers; status 0: none sent
NoResp == [op |-> "none", ip |-> "none", sid |-> "none", code |-> NoCode,
           totpCode |-> NoTotp, newCode |-> NoCode, status |-> 0,
           waitTime |-> 0, body |-> "none", remainingTime |-> 0,
           settings |-> [id |-> "undefined"]]
Resp(op, ip, sid, code, status, body) ==
    [NoResp EXCEPT !.op = op, !.ip = ip, !.sid = sid, !.code = code,
                   !.status = status, !.body = body]

(***************************************************************************)
(* routes: attempt tracker                                                 *)
(***************************************************************************)
MapSet(m, k, v) == [x \in DOMAIN m \cup {k} |-> IF x = k THEN v ELSE m[x]]
MapDelete(m, k) == [x \in DOMAIN m \ {k} |-> m[x]]
EntryOf(tr, ip) == IF ip \in DOMAIN tr THEN tr[ip] ELSE FreshEntry
RecentAttempts(attempts, t) ==
    SelectSeq(attempts, LAMBDA time : t - time < FIFTEEN_MIN_MS)
BackoffTime(level) ==
    Min(Pow(EXPONENTIAL_BACKOFF_BASE, level) * 1000, MAX_BACKOFF_TIME)
MaxAttempts(level) == BASE_ADMIN_ATTEMPTS + (level \div 3)

\* isAdminRateLimited without the backoff test
IsAdminRateLimitedCountOnly(tr, ip, t) ==
    LET data == EntryOf(tr, ip)
        recentAttempts == RecentAttempts(data.attempts, t)
        backoffTime == BackoffTime(data.backoffLevel)
    IN  IF Len(recentAttempts) >= MaxAttempts(data.backoffLevel)
        THEN [limited |-> TRUE, waitTime |-> CeilDiv(backoffTime, 1000)]
        ELSE [limited |-> FALSE, waitTime |-> 0]

\* isAdminRateLimited rounding the remaining wait down to whole seconds
IsAdminRateLimitedFloorWait(tr, ip, t) ==
    LET data == EntryOf(tr, ip)
        recentAttempts == RecentAttempts(data.attempts, t)
        backoffTime == BackoffTime(data.backoffLevel)
    IN  IF data.lastFailTime # 0 /\ (t - data.lastFailTime) < backoffTime
        THEN [limited |-> TRUE,
              waitTime |-> (backoffTime - (t - data.lastFailTime)) \div 1000]
        ELSE IF Len(recentAttempts) >= MaxAttempts(data.backoffLevel)
        THEN [limited |-> TRUE, waitTime |-> CeilDiv(backoffTime, 1000)]
        ELSE [limited |-> FALSE, waitTime |-> 0]

\* isAdminRateLimited: the answer
IsAdminRateLimited(tr, ip, t) ==
    LET data == EntryOf(tr, ip)
        recentAttempts == RecentAttempts(data.attempts, t)
        backoffTime == BackoffTime(data.backoffLevel)
    IN  IF data.lastFailTime # 0 /\ (t - data.lastFailTime) < backoffTime
        THEN [limited |-> TRUE,
              waitTime |-> CeilDiv(backoffTime - (t - data.lastFailTime), 1000)]
        ELSE IF Len(recentAttempts) >= MaxAttempts(data.backoffLevel)
        THEN [limited |-> TRUE, waitTime |-> CeilDiv(backoffTime, 1000)]
        ELSE [limited |-> FALSE, waitTime |-> 0]

\* isAdminRateLimited counting a rejected request as one more failure
TrackerAfterCheckCounting(tr, ip, t) ==
    LET data == EntryOf(tr, ip)
        pruned == [data EXCEPT !.attempts = RecentAttempts(data.attempts, t)]
    IN  IF IsAdminRateLimited(tr, ip, t).limited
        THEN MapSet(tr, ip, [pruned EXCEPT
                 !.backoffLevel = Min(data.backoffLevel + 1, MAX_BACKOFF_LEVEL)])
        ELSE MapSet(tr, ip, pruned)

\* isAdminRateLimited stamping the time of the check as a failure time
TrackerAfterCheckStamping(tr, ip, t) ==
    LET data == EntryOf(tr, ip)
        pruned == [data EXCEPT !.attempts = RecentAttempts(data.attempts, t)]
    IN  IF ip \notin DOMAIN tr /\ IsAdminRateLimited(tr, ip, t).limited
        THEN tr
        ELSE IF IsAdminRateLimited(tr, ip, t).limited
        THEN MapSet(tr, ip, pruned)
        ELSE MapSet(tr, ip, [pruned EXCEPT !.lastFailTime = t])

\* isAdminRateLimited storing the pruned list only when it answers not
\* limited
TrackerAfterCheckLazy(tr, ip, t) ==
    LET data == EntryOf(tr, ip)
        pruned == [data EXCEPT !.attempts = RecentAttempts(data.attempts, t)]
    IN  IF IsAdminRateLimited(tr, ip, t).limited
        THEN tr
        ELSE MapSet(tr, ip, pruned)

\* isAdminRateLimited: the tracker it leaves.  The pruned list is written
\* into the record object, so an existing record is pruned on every call;
\* a record is stored for a new ip only on the not-limited path.
TrackerAfterCheck(tr, ip, t) ==
    LET data == EntryOf(tr, ip)
        pruned == [data EXCEPT !.attempts = RecentAttempts(data.attempts, t)]
    IN  IF ip \notin DOMAIN tr /\ IsAdminRateLimited(tr, ip, t).limited
        THEN tr
        ELSE MapSet(tr, ip, pruned)

\* recordFailedAdminAttempt raising the level without the cap
RecordFailedAdminAttemptUncapped(tr, ip, t) ==
    LET data == EntryOf(tr, ip)
    IN  MapSet(tr, ip,
            [attempts |-> Append(data.attempts, t),
             lastFailTime |-> t,
             backoffLevel |-> data.backoffLevel + 1])

\* recordFailedAdminAttempt starting the backoff a window late
RecordFailedAdminAttemptLate(tr, ip, t) ==
    LET data == EntryOf(tr, ip)
    IN  MapSet(tr, ip,
            [attempts |-> Append(data.attempts, t),
             lastFailTime |-> t + FIFTEEN_MIN_MS,
             backoffLevel |-> Min(data.backoffLevel + 1, MAX_BACKOFF_LEVEL)])

\* recordFailedAdminAttempt taking the level from the failures still listed
RecordFailedAdminAttemptByCount(tr, ip, t) ==
    LET data == EntryOf(tr, ip)
    IN  MapSet(tr, ip,
            [attempts |-> Append(data.attempts, t),
             lastFailTime |-> t,
             backoffLevel |-> Min(Len(data.attempts) + 1, MAX_BACKOFF_LEVEL)])

RecordFailedAdminAttempt(tr, ip, t) ==
    LET data == EntryOf(tr, ip)
    IN  MapSet(tr, ip,
            [attempts |-> Append(data.attempts, t),
             lastFailTime |-> t,
             backoffLevel |-> Min(data.backoffLevel + 1, MAX_BACKOFF_LEVEL)])

\* resetAdminAttempts clearing the whole tracker
ResetAdminAttemptsAll(tr, ip) == [x \in {} |-> FreshEntry]

\* resetAdminAttempts clearing the failure times and keeping the level
ResetAdminAttemptsKeepLevel(tr, ip) ==
    IF ip \in DOMAIN tr
    THEN MapSet(tr, ip, [tr[ip] EXCEPT !.attempts = <<>>, !.lastFailTime = 0])
    ELSE tr

ResetAdminAttempts(tr, ip) == MapDelete(tr, ip)

\* the least delay d >= 0 after which isAdminRateLimited answers not limited,
\* when no further failure is recorded; the answer can change only when the
\* backoff ends or a failure leaves the window
WaitCandidates(data, t) ==
    {0} \cup {d \in {BackoffTime(data.backoffLevel) - (t - data.lastFailTime)}
                 : d > 0 /\ data.lastFailTime # 0}
        \cup {d \in {data.attempts[i] + FIFTEEN_MIN_MS - t
                        : i \in 1..Len(data.attempts)} : d > 0}
RequiredWait(tr, ip, t) ==
    LET data == EntryOf(tr, ip)
        free == {d \in WaitCandidates(data, t)
                    : ~IsAdminRateLimited(tr, ip, t + d).limited}
    IN  CHOOSE d \in free : \A e \in free : d <= e

(***************************************************************************)
(* storage.ts: admin settings and audit log                                *)
(***************************************************************************)
\* createInitialAdminSettings succeeds
CanBootstrap(prod, envCode) ==
    /\ ~(envCode = NoCode /\ prod)
    /\ ValidateAdminCodeStrength(
           IF envCode = NoCode THEN Admin123 ELSE envCode, prod)
CreateInitialAdminSettings(envCode) ==
    [id |-> SettingsId,
     adminCode |-> BcryptHash(IF envCode = NoCode THEN Admin123 ELSE envCode),
     totpSecret |-> NoTotpSecret]
\* getAdminSettings: the record it returns and leaves stored
GetAdminSettings(settings, envCode) ==
    IF settings = NoSettings THEN CreateInitialAdminSettings(envCode)
    ELSE settings
\* getAdminSettings throws
GetAdminSettingsThrows(settings, prod, envCode) ==
    settings = NoSettings /\ ~CanBootstrap(prod, envCode)
UpdateAdminSettings(settings, newCode, totpSecret) ==
    [id |-> IF settings = NoSettings THEN SettingsId ELSE settings.id,
     adminCode |-> BcryptHash(newCode),
     totpSecret |-> totpSecret]
VerifyAdminCode(settings, plainCode) ==
    settings # NoSettings /\ BcryptCompare(plainCode, settings.adminCode)
\* getPublicAdminSettings handing out the stored record whole
GetPublicAdminSettingsWhole(settings) == settings
\* getPublicAdminSettings: the stored record without adminCode and totpSecret
GetPublicAdminSettings(settings) == [id |-> settings.id]

MaskedAdminId == "admin-****"
\* createAuditLog dropping the entries of successful logins
CreateAuditLogFailuresOnly(logs, action, resource, resourceId, adminCode, ip, changes) ==
    IF action = "auth_success" THEN logs
    ELSE Append(logs, [action |-> action, resource |-> resource,
                       resourceId |-> resourceId, adminCode |-> MaskedAdminId,
                       ipAddress |-> ip, changes |-> changes])
\* createAuditLog storing the adminCode its caller passed
CreateAuditLogUnmasked(logs, action, resource, resourceId, adminCode, ip, changes) ==
    Append(logs, [action |-> action, resource |-> resource,
                  resourceId |-> resourceId, adminCode |-> adminCode,
                  ipAddress |-> ip, changes |-> changes])
CreateAuditLog(logs, action, resource, resourceId, adminCode, ip, changes) ==
    Append(logs, [action |-> action, resource |-> resource,
                  resourceId |-> resourceId, adminCode |-> MaskedAdminId,
                  ipAddress |-> ip, changes |-> changes])

(***************************************************************************)
(* Inputs                                                                  *)
(***************************************************************************)
TotpInputs(t) == {NoTotp, WrongTotp, BadTotp,
                  GenerateTotpToken(TotpSecretValue, t \div TOTP_WINDOW_MS)}
PortfolioBodies == {"dataA", "invalid"}
InsertPortfolioDataOk(body) == body # "invalid"

(***************************************************************************)
(* Construction: validateProductionSecurity and the production check of    *)
(* registerRoutes have passed, nothing is stored yet                       *)
(***************************************************************************)
InitWith(prod, envCode) ==
    /\ isProduction = prod
    /\ envAdminCode = envCode
    /\ ValidateProductionSecurity(isProduction, envAdminCode)
    /\ ~(isProduction /\ envAdminCode = NoCode)
    /\ now = StartTime
    /\ adminAuthTracker = <<>>
    /\ sessions = [s \in SIDs |-> Anonymous]
    /\ adminSettings = NoSettings
    /\ auditLogs = <<>>
    /\ portfolio = "initial"
    /\ req = [r \in Reqs |-> IdleReq]
    /\ resp = NoResp
    /\ waitAfterFail = [ip \in IPs |-> 0]
    /\ ops = 0
    /\ ticks = 0
    /\ submissionTracker = <<>>
    /\ contacts = <<>>
    /\ accepted = [ip \in IPs |-> <<>>]

env == <<isProduction, envAdminCode>>
\* a request is taken into the lowest free slot
Start(r) ==
    /\ req[r].op = "idle"
    /\ \A r2 \in Reqs : r2 < r => req[r2].op # "idle"
    /\ ops' = ops + 1
Finish(r) == req' = [req EXCEPT ![r] = IdleReq]
\* the tracker after a failure for ip is recorded at the present time, and
\* the wait that failure imposes
Failed(tr, ip) ==
    /\ adminAuthTracker' = RecordFailedAdminAttempt(tr, ip, now)
    /\ waitAfterFail' = [waitAfterFail EXCEPT
           ![ip] = RequiredWait(RecordFailedAdminAttempt(tr, ip, now), ip, now)]

\* a login that never asks for the second factor
TotpRequiredNever(settings, totpCode) == FALSE

\* login: a second factor is enrolled and the request carries none
TotpRequired(settings, totpCode) ==
    settings.totpSecret # NoTotpSecret /\ totpCode = NoTotp

(***************************************************************************)
(* POST /api/admin/login, up to the await of bcrypt.compare                *)
(***************************************************************************)
LoginBegin(r, ip, sid, code, totpCode) ==
    LET rateLimitResult == IsAdminRateLimited(adminAuthTracker, ip, now)
        checked == TrackerAfterCheck(adminAuthTracker, ip, now)
        settings == GetAdminSettings(adminSettings, envAdminCode)
    IN
    /\ UNCHANGED contactVars
    /\ Start(r)
    /\ IF rateLimitResult.limited
       THEN /\ resp' = [Resp("login", ip, sid, code, 429, "rate_limited")
                         EXCEPT !.waitTime = rateLimitResult.waitTime,
                                !.totpCode = totpCode]
            /\ adminAuthTracker' = checked
            /\ UNCHANGED <<req, adminSettings, waitAfterFail>>
       ELSE IF ~(AdminVerifyCodeOk(code) /\ AdminVerifyTotpOk(totpCode))
       THEN /\ resp' = [Resp("login", ip, sid, code, 400, "invalid_input")
                         EXCEPT !.totpCode = totpCode]
            /\ adminAuthTracker' = checked
            /\ UNCHANGED <<req, adminSettings, waitAfterFail>>
       ELSE IF GetAdminSettingsThrows(adminSettings, isProduction, envAdminCode)
       THEN /\ resp' = [Resp("login", ip, sid, code, 500, "authentication_failed")
                         EXCEPT !.totpCode = totpCode]
            /\ Failed(checked, ip)
            /\ UNCHANGED <<req, adminSettings>>
       ELSE /\ adminSettings' = settings
            /\ req' = [req EXCEPT ![r] =
                   [IdleReq EXCEPT !.op = "login", !.pc = "compare",
                       !.ip = ip, !.sid = sid, !.code = Trim(code),
                       !.isCodeValid =
                           BcryptCompare(Trim(code), settings.adminCode),
                       !.totpCode = totpCode]]
            /\ adminAuthTracker' = checked
            /\ UNCHANGED <<resp, waitAfterFail>>
    /\ UNCHANGED <<env, now, sessions, auditLogs, portfolio, ticks>>

(***************************************************************************)
(* POST /api/admin/login, after bcrypt.compare has answered                *)
(***************************************************************************)
LoginVerify(r) ==
    LET q == req[r]
        Answer(status, body) ==
            [Resp("login", q.ip, q.sid, q.code, status, body)
                EXCEPT !.totpCode = q.totpCode]
    IN
    /\ UNCHANGED contactVars
    /\ q.op = "login" /\ q.pc = "compare"
    /\ Finish(r)
    /\ IF ~q.isCodeValid
       THEN /\ Failed(adminAuthTracker, q.ip)
            /\ auditLogs' = CreateAuditLog(auditLogs, "auth_failed", "admin",
                   "none", "failed-attempt", q.ip, "invalid_code")
            /\ resp' = Answer(401, "invalid_credentials")
            /\ UNCHANGED sessions
       ELSE IF TotpRequired(adminSettings, q.totpCode)
       THEN /\ resp' = Answer(400, "totp_required")
            /\ UNCHANGED <<adminAuthTracker, waitAfterFail, auditLogs, sessions>>
       ELSE /\ sessions' = [sessions EXCEPT ![q.sid] =
                   [isAdminAuthenticated |-> TRUE,
                    adminId |-> adminSettings.id,
                    loginTime |-> now, lastActivity |-> now]]
            /\ adminAuthTracker' = ResetAdminAttempts(adminAuthTracker, q.ip)
            /\ waitAfterFail' = [waitAfterFail EXCEPT ![q.ip] = 0]
            /\ auditLogs' = CreateAuditLog(auditLogs, "auth_success", "admin",
                   adminSettings.id, "admin-****", q.ip, "session_login")
            /\ resp' = Answer(200, "login_ok")
    /\ UNCHANGED <<env, now, adminSettings, portfolio, ops, ticks>>

(***************************************************************************)
(* POST /api/admin/login after bcrypt.compare has answered, when the       *)
(* promise of storage.createAuditLog rejects: the await throws into the    *)
(* catch of the handler, which records a failure and answers 500.  What    *)
(* the handler did before the await stays done.                            *)
(***************************************************************************)
LoginVerifyAuditFails(r) ==
    LET q == req[r]
        Answer(status, body) ==
            [Resp("login", q.ip, q.sid, q.code, status, body)
                EXCEPT !.totpCode = q.totpCode]
    IN
    /\ UNCHANGED contactVars
    /\ q.op = "login" /\ q.pc = "compare"
    /\ ~(q.isCodeValid /\ TotpRequired(adminSettings, q.totpCode))
    /\ Finish(r)
    /\ IF ~q.isCodeValid
       THEN /\ Failed(RecordFailedAdminAttempt(adminAuthTracker, q.ip, now), q.ip)
            /\ UNCHANGED sessions
       ELSE /\ sessions' = [sessions EXCEPT ![q.sid] =
                   [isAdminAuthenticated |-> TRUE,
                    adminId |-> adminSettings.id,
                    loginTime |-> now, lastActivity |-> now]]
            /\ Failed(ResetAdminAttempts(adminAuthTracker, q.ip), q.ip)
    /\ resp' = Answer(500, "authentication_failed")
    /\ UNCHANGED <<env, now, adminSettings, auditLogs, portfolio, ops, ticks>>

Tick(d) ==
    /\ UNCHANGED contactVars
    /\ ticks' = ticks + 1
    /\ now' = now + d
    /\ UNCHANGED <<env, adminAuthTracker, sessions, adminSettings, auditLogs,
                   portfolio, req, resp, waitAfterFail, ops>>

(***************************************************************************)
(* requireAdminSession                                                     *)
(***************************************************************************)
GuardNoSession(session) ==
    ~session.isAdminAuthenticated \/ session.adminId = "none"
SessionAge(session, t) == t - session.loginTime
GuardExpired(session, t) ==
    ~GuardNoSession(session) /\ SessionAge(session, t) > MAX_SESSION_AGE
GuardPasses(session, t) ==
    ~GuardNoSession(session) /\ ~GuardExpired(session, t)
\* the guard restarting the lifetime of the session at every request
TouchedSliding(sid) ==
    [sessions EXCEPT ![sid].lastActivity = now, ![sid].loginTime = now]
\* the guard lets the request through and stamps the session
Touched(sid) == [sessions EXCEPT ![sid].lastActivity = now]
\* the guard turns the request away.  On expiry the session is destroyed
\* and then read again for the audit entry; a session library that detaches
\* the destroyed session from the request makes that read throw, and then
\* neither the entry nor the 401 is written.
GuardRejects(op, ip, sid, detached) ==
    /\ ~GuardPasses(sessions[sid], now)
    /\ IF GuardNoSession(sessions[sid])
       THEN /\ auditLogs' = CreateAuditLog(auditLogs, "auth_failed", "admin",
                   "none", "session-invalid", ip, "no_session")
            /\ resp' = Resp(op, ip, sid, NoCode, 401, "session_required")
            /\ UNCHANGED sessions
       ELSE /\ sessions' = [sessions EXCEPT ![sid] = Anonymous]
            /\ IF detached
               THEN /\ resp' = Resp(op, ip, sid, NoCode, 0, "threw")
                    /\ UNCHANGED auditLogs
               ELSE /\ auditLogs' = CreateAuditLog(auditLogs,
                           "session_expired", "admin", sessions[sid].adminId,
                           "session-expired", ip, "sessionAge")
                    /\ resp' = Resp(op, ip, sid, NoCode, 401, "session_expired")

\* logout forgetting the failed attempts of the client as well
LogoutClearing(r, ip, sid) ==
    /\ UNCHANGED contactVars
    /\ Start(r)
    /\ sessions' = [sessions EXCEPT ![sid] = Anonymous]
    /\ IF sessions[sid].adminId # "none"
       THEN auditLogs' = CreateAuditLog(auditLogs, "logout", "admin",
                sessions[sid].adminId, "admin-****", ip, "logout_endpoint")
       ELSE UNCHANGED auditLogs
    /\ resp' = Resp("logout", ip, sid, NoCode, 200, "logged_out")
    /\ adminAuthTracker' = ResetAdminAttempts(adminAuthTracker, ip)
    /\ UNCHANGED <<env, now, adminSettings, portfolio, req, waitAfterFail,
                   ticks>>

\* logout refusing a request that carries no login
LogoutStrict(r, ip, sid) ==
    /\ UNCHANGED contactVars
    /\ Start(r)
    /\ sessions' = [sessions EXCEPT ![sid] = Anonymous]
    /\ IF sessions[sid].adminId # "none"
       THEN /\ auditLogs' = CreateAuditLog(auditLogs, "logout", "admin",
                   sessions[sid].adminId, "admin-****", ip, "logout_endpoint")
            /\ resp' = Resp("logout", ip, sid, NoCode, 200, "logged_out")
       ELSE /\ UNCHANGED auditLogs
            /\ resp' = Resp("logout", ip, sid, NoCode, 401, "session_required")
    /\ UNCHANGED <<env, now, adminAuthTracker, adminSettings, portfolio, req,
                   waitAfterFail, ticks>>

(***************************************************************************)
(* POST /api/admin/logout                                                  *)
(***************************************************************************)
Logout(r, ip, sid) ==
    /\ UNCHANGED contactVars
    /\ Start(r)
    /\ sessions' = [sessions EXCEPT ![sid] = Anonymous]
    /\ IF sessions[sid].adminId # "none"
       THEN auditLogs' = CreateAuditLog(auditLogs, "logout", "admin",
                sessions[sid].adminId, "admin-****", ip, "logout_endpoint")
       ELSE UNCHANGED auditLogs
    /\ resp' = Resp("logout", ip, sid, NoCode, 200, "logged_out")
    /\ UNCHANGED <<env, now, adminAuthTracker, adminSettings, portfolio, req,
                   waitAfterFail, ticks>>

(***************************************************************************)
(* GET /api/admin/session                                                  *)
(***************************************************************************)
SessionStatus(r, ip, sid) ==
    /\ UNCHANGED contactVars
    /\ Start(r)
    /\ IF sessions[sid].isAdminAuthenticated
       THEN resp' = [Resp("session", ip, sid, NoCode, 200, "authenticated")
                        EXCEPT !.remainingTime =
                            Max(0, MAX_SESSION_AGE - SessionAge(sessions[sid], now))]
       ELSE resp' = Resp("session", ip, sid, NoCode, 200, "unauthenticated")
    /\ UNCHANGED <<env, now, adminAuthTracker, sessions, adminSettings,
                   auditLogs, portfolio, req, waitAfterFail, ticks>>

(***************************************************************************)
(* GET /api/admin/settings                                                 *)
(***************************************************************************)
GetSettings(r, ip, sid, detached) ==
    /\ UNCHANGED contactVars
    /\ Start(r)
    /\ IF GuardPasses(sessions[sid], now)
       THEN /\ sessions' = Touched(sid)
            /\ IF GetAdminSettingsThrows(adminSettings, isProduction, envAdminCode)
               THEN /\ resp' = Resp("settings", ip, sid, NoCode, 500, "error")
                    /\ UNCHANGED adminSettings
               ELSE /\ adminSettings' = GetAdminSettings(adminSettings, envAdminCode)
                    /\ resp' = [Resp("settings", ip, sid, NoCode, 200,
                                     GetPublicAdminSettings(adminSettings').id)
                                   EXCEPT !.settings =
                                       GetPublicAdminSettings(adminSettings')]
            /\ UNCHANGED auditLogs
       ELSE /\ GuardRejects("settings", ip, sid, detached)
            /\ UNCHANGED adminSettings
    /\ UNCHANGED <<env, now, adminAuthTracker, portfolio, req, waitAfterFail,
                   ticks>>

(***************************************************************************)
(* PUT /api/admin/portfolio                                                *)
(***************************************************************************)
PutPortfolio(r, ip, sid, body, detached) ==
    /\ UNCHANGED contactVars
    /\ Start(r)
    /\ IF GuardPasses(sessions[sid], now)
       THEN /\ sessions' = Touched(sid)
            /\ IF InsertPortfolioDataOk(body)
               THEN /\ portfolio' = body
                    /\ resp' = Resp("portfolio", ip, sid, NoCode, 200, body)
               ELSE /\ resp' = Resp("portfolio", ip, sid, NoCode, 400,
                                    "invalid_input")
                    /\ UNCHANGED portfolio
            /\ UNCHANGED auditLogs
       ELSE /\ GuardRejects("portfolio", ip, sid, detached)
            /\ UNCHANGED portfolio
    /\ UNCHANGED <<env, now, adminAuthTracker, adminSettings, req,
                   waitAfterFail, ticks>>

(***************************************************************************)
(* POST /api/admin/settings/rotate-code: guard, schema, and the read of    *)
(* the stored hash, up to the await of bcrypt.compare                      *)
(***************************************************************************)
RotateBegin(r, ip, sid, currentCode, newCode, detached) ==
    LET settings == GetAdminSettings(adminSettings, envAdminCode)
        Answer(status, body) ==
            [Resp("rotate", ip, sid, currentCode, status, body)
                EXCEPT !.newCode = newCode]
    IN
    /\ UNCHANGED contactVars
    /\ Start(r)
    /\ IF GuardPasses(sessions[sid], now)
       THEN /\ sessions' = Touched(sid)
            /\ IF \/ ~AdminCodeRotationOk(currentCode, newCode)
                  \/ GetAdminSettingsThrows(adminSettings, isProduction,
                                            envAdminCode)
               THEN /\ resp' = Answer(500, "rotation_error")
                    /\ UNCHANGED <<req, adminSettings>>
               ELSE /\ adminSettings' = settings
                    /\ req' = [req EXCEPT ![r] =
                          [IdleReq EXCEPT !.op = "rotate", !.pc = "compare",
                              !.ip = ip, !.sid = sid, !.code = currentCode,
                              !.isCodeValid =
                                  BcryptCompare(currentCode, settings.adminCode),
                              !.newCode = Trim(newCode)]]
                    /\ UNCHANGED resp
            /\ UNCHANGED auditLogs
       ELSE /\ GuardRejects("rotate", ip, sid, detached)
            /\ UNCHANGED <<req, adminSettings>>
    /\ UNCHANGED <<env, now, adminAuthTracker, portfolio, waitAfterFail, ticks>>

\* rotate-code going on to updateAdminSettings whatever bcrypt.compare said
RotateCompareUnchecked(r) ==
    /\ UNCHANGED contactVars
    /\ req[r].op = "rotate" /\ req[r].pc = "compare"
    /\ req' = [req EXCEPT ![r].pc = "hash",
                          ![r].totpRead = adminSettings.totpSecret]
    /\ UNCHANGED <<env, now, adminAuthTracker, sessions, adminSettings,
                   auditLogs, portfolio, resp, waitAfterFail, ops, ticks>>

(***************************************************************************)
(* rotate-code after bcrypt.compare has answered: the rejection, or the    *)
(* read of the settings and updateAdminSettings up to the await of         *)
(* bcrypt.hash                                                             *)
(***************************************************************************)
RotateCompare(r) ==
    LET q == req[r]
        Answer(status, body) ==
            [Resp("rotate", q.ip, q.sid, q.code, status, body)
                EXCEPT !.newCode = q.newCode]
    IN
    /\ UNCHANGED contactVars
    /\ q.op = "rotate" /\ q.pc = "compare"
    /\ IF ~q.isCodeValid
       THEN /\ auditLogs' = CreateAuditLog(auditLogs, "code_rotation_failed",
                   "admin_settings", "none", "admin-****", q.ip,
                   "invalid_current_code")
            /\ resp' = Answer(401, "current_code_invalid")
            /\ Finish(r)
       ELSE IF ~ValidateAdminCodeStrength(q.newCode, isProduction)
       THEN /\ resp' = Answer(500, "rotation_error")
            /\ Finish(r)
            /\ UNCHANGED auditLogs
       ELSE /\ req' = [req EXCEPT ![r].pc = "hash",
                                  ![r].totpRead = adminSettings.totpSecret]
            /\ UNCHANGED <<resp, auditLogs>>
    /\ UNCHANGED <<env, now, adminAuthTracker, sessions, adminSettings,
                   portfolio, waitAfterFail, ops, ticks>>

(***************************************************************************)
(* rotate-code after bcrypt.hash has answered: the settings are replaced   *)
(***************************************************************************)
RotateCommit(r) ==
    LET q == req[r]
    IN
    /\ UNCHANGED contactVars
    /\ q.op = "rotate" /\ q.pc = "hash"
    /\ adminSettings' = UpdateAdminSettings(adminSettings, q.newCode, q.totpRead)
    /\ auditLogs' = CreateAuditLog(auditLogs, "code_rotation_success",
           "admin_settings", adminSettings.id, "admin-****", q.ip,
           "admin_code_changed")
    /\ resp' = [Resp("rotate", q.ip, q.sid, q.code, 200, "code_updated")
                   EXCEPT !.newCode = q.newCode]
    /\ Finish(r)
    /\ UNCHANGED <<env, now, adminAuthTracker, sessions, portfolio,
                   waitAfterFail, ops, ticks>>

(***************************************************************************)
(* storage.updateAdminSettings called with a generated second-factor       *)
(* secret: the only way a second factor gets enrolled                      *)
(***************************************************************************)
EnrollSecondFactor(code) ==
    /\ UNCHANGED contactVars
    /\ ops' = ops + 1
    /\ IF ValidateAdminCodeStrength(code, isProduction)
       THEN adminSettings' = UpdateAdminSettings(adminSettings, code,
                                                 TotpSecretValue)
       ELSE UNCHANGED adminSettings
    /\ UNCHANGED <<env, now, adminAuthTracker, sessions, auditLogs, portfolio,
                   req, resp, waitAfterFail, ticks>>

(***************************************************************************)
(* POST /api/contact: the quota check, the schema and the call of          *)
(* storage.createContact, up to its await                                  *)
(***************************************************************************)
ContactBodies == {"message", "invalid"}
InsertContactOk(body) == body # "invalid"
SubmissionsOf(tr, ip) == IF ip \in DOMAIN tr THEN tr[ip] ELSE <<>>
RecentSubmissions(times, t) ==
    SelectSeq(times, LAMBDA time : t - time < HOUR_IN_MS)
\* createContact: the contact is in the map when the promise is returned
CreateContact(stored, body, t) ==
    Append(stored, [message |-> body, createdAt |-> t])

ContactBegin(r, ip, body) ==
    LET recentSubmissions ==
            RecentSubmissions(SubmissionsOf(submissionTracker, ip), now)
    IN
    /\ Start(r)
    /\ IF Len(recentSubmissions) >= MAX_SUBMISSIONS_PER_HOUR
       THEN /\ resp' = Resp("contact", ip, "none", NoCode, 429, "too_many")
            /\ UNCHANGED <<req, contacts>>
       ELSE IF ~InsertContactOk(body)
       THEN /\ resp' = Resp("contact", ip, "none", NoCode, 400, "check_input")
            /\ UNCHANGED <<req, contacts>>
       ELSE /\ contacts' = CreateContact(contacts, body, now)
            /\ req' = [req EXCEPT ![r] =
                  [IdleReq EXCEPT !.op = "contact", !.pc = "store", !.ip = ip,
                      !.startedAt = now,
                      !.recentSubmissions = recentSubmissions]]
            /\ UNCHANGED resp
    /\ UNCHANGED <<env, now, adminAuthTracker, sessions, adminSettings,
                   auditLogs, portfolio, waitAfterFail, ticks,
                   submissionTracker, accepted>>

\* the tracker after the handler pushed its request time onto the array it
\* filtered at its start and stored that array
TrackerAfterSubmission(tr, ip, recent, startedAt) ==
    MapSet(tr, ip, Append(recent, startedAt))

(***************************************************************************)
(* POST /api/contact after createContact has answered: the quota update    *)
(* and the answer.  The notification mail sent before the answer touches   *)
(* no state of the program and its failure is swallowed.                   *)
(***************************************************************************)
ContactStored(r) ==
    LET q == req[r]
    IN
    /\ q.op = "contact" /\ q.pc = "store"
    /\ submissionTracker' = TrackerAfterSubmission(submissionTracker, q.ip,
                                q.recentSubmissions, q.startedAt)
    /\ accepted' = [accepted EXCEPT ![q.ip] = Append(@, q.startedAt)]
    /\ resp' = Resp("contact", q.ip, "none", NoCode, 200, "thank_you")
    /\ Finish(r)
    /\ UNCHANGED <<env, now, adminAuthTracker, sessions, adminSettings,
                   auditLogs, portfolio, waitAfterFail, ops, ticks, contacts>>

(***************************************************************************)
(* Specifications.  Each draws the inputs of the operations it exercises   *)
(* from a small set.                                                       *)
(***************************************************************************)
\* the login path of one client, two requests in flight at most
LoginTicks == {2000, 4000, 900000}
InitLogin == InitWith(TRUE, StrongA) \/ InitWith(FALSE, NoCode)
NextLogin ==
    \/ /\ ops < MaxOpsLogin
       /\ \E r \in Reqs, code \in {ShortCode, StrongA, StrongB} :
             LoginBegin(r, "ip1", "s1", code, NoTotp)
    \/ \E r \in Reqs : LoginVerify(r)
    \/ /\ ticks < MaxTicksLogin
       /\ \E d \in LoginTicks : Tick(d)
SpecLogin == InitLogin /\ [][NextLogin]_vars

\* the login path of one client, one request at a time
SeqTicks == {4000, 8000, 900000}
InitSeq == InitWith(TRUE, StrongA)
NextSeq ==
    \/ /\ ops < MaxOpsSeq
       /\ \E code \in {StrongA, StrongB} : LoginBegin(1, "ip1", "s1", code, NoTotp)
    \/ LoginVerify(1)
    \/ /\ ticks < MaxTicksSeq
       /\ \E d \in SeqTicks : Tick(d)
SpecSeq == InitSeq /\ [][NextSeq]_vars

\* sessions: login, the guarded operations, logout and the status read
SessionTicks == {1000, 900000, 1800000}
InitSession == InitWith(TRUE, StrongA)
NextSession ==
    \/ /\ ops < MaxOpsSession
       /\ \E sid \in SIDs :
             \/ \E code \in {StrongA, StrongB} :
                   LoginBegin(1, "ip1", sid, code, NoTotp)
             \/ Logout(1, "ip1", sid)
             \/ SessionStatus(1, "ip1", sid)
             \/ \E detached \in BOOLEAN :
                   \/ GetSettings(1, "ip1", sid, detached)
                   \/ \E body \in PortfolioBodies :
                         PutPortfolio(1, "ip1", sid, body, detached)
                   \/ RotateBegin(1, "ip1", sid, StrongA, StrongB, detached)
    \/ LoginVerify(1)
    \/ RotateCompare(1)
    \/ RotateCommit(1)
    \/ /\ ticks < MaxTicksSession
       /\ \E d \in SessionTicks : Tick(d)
SpecSession == InitSession /\ [][NextSession]_vars

\* rotation of the admin code
InitRotate == InitWith(TRUE, StrongA) \/ InitWith(TRUE, LongA)
NextRotate ==
    \/ /\ ops < MaxOpsRotate
       /\ \E r \in Reqs :
             \/ \E code \in {StrongA, StrongB, LongA, LongB} :
                   LoginBegin(r, "ip1", "s1", code, NoTotp)
             \/ \E currentCode \in {StrongA, StrongB, LongA, LongB},
                   newCode \in {DevCode, StrongA, StrongB, LongA, LongB} :
                   RotateBegin(r, "ip1", "s1", currentCode, newCode, FALSE)
    \/ \E r \in Reqs : LoginVerify(r)
    \/ \E r \in Reqs : RotateCompare(r)
    \/ \E r \in Reqs : RotateCommit(r)
SpecRotate == InitRotate /\ [][NextRotate]_vars

\* login with a second factor enrolled
InitTotp == InitWith(TRUE, StrongA)
NextTotp ==
    \/ /\ ops < MaxOpsTotp
       /\ \/ \E code \in {StrongA, StrongB}, totpCode \in TotpInputs(now) :
                LoginBegin(1, "ip1", "s1", code, totpCode)
          \/ \E code \in {DevCode, StrongA} : EnrollSecondFactor(code)
    \/ LoginVerify(1)
SpecTotp == InitTotp /\ [][NextTotp]_vars

\* login when the audit log may refuse an entry
AuditTicks == {4000, 900000}
InitAudit == InitWith(TRUE, StrongA)
NextAudit ==
    \/ /\ ops < MaxOpsAudit
       /\ \E code \in {StrongA, StrongB} : LoginBegin(1, "ip1", "s1", code, NoTotp)
    \/ LoginVerify(1)
    \/ LoginVerifyAuditFails(1)
    \/ /\ ticks < MaxTicksAudit
       /\ \E d \in AuditTicks : Tick(d)
SpecAudit == InitAudit /\ [][NextAudit]_vars

\* startup under every configuration, then logins
StartupCodes == {NoCode, Admin123, DevCode, ShortCode, StrongA}
StartupTicks == {4000, 900000}
InitStartup ==
    \E prod \in BOOLEAN, envCode \in StartupCodes : InitWith(prod, envCode)
NextStartup ==
    \/ /\ ops < MaxOpsStartup
       /\ \E code \in {DevCode, StrongA, StrongB} :
             LoginBegin(1, "ip1", "s1", code, NoTotp)
    \/ LoginVerify(1)
    \/ /\ ticks < MaxTicksStartup
       /\ \E d \in StartupTicks : Tick(d)
SpecStartup == InitStartup /\ [][NextStartup]_vars

\* the contact form of two clients, two requests in flight at most
ContactTicks == {1000, 3600000}
InitContact == InitWith(TRUE, StrongA)
NextContact ==
    \/ /\ ops < MaxOpsContact
       /\ \E r \in Reqs, ip \in IPs, body \in ContactBodies :
             ContactBegin(r, ip, body)
    \/ \E r \in Reqs : ContactStored(r)
    \/ /\ ticks < MaxTicksContact
       /\ \E d \in ContactTicks : Tick(d)
SpecContact == InitContact /\ [][NextContact]_vars

\* the login path of one client over the length of its backoff and window
BackoffTicks == {16000, 900000}
InitBackoff == InitWith(TRUE, StrongA)
NextBackoff ==
    \/ /\ ops < MaxOpsBackoff
       /\ \E code \in {StrongA, StrongB} : LoginBegin(1, "ip1", "s1", code, NoTotp)
    \/ LoginVerify(1)
    \/ /\ ticks < MaxTicksBackoff
       /\ \E d \in BackoffTicks : Tick(d)
SpecBackoff == InitBackoff /\ [][NextBackoff]_vars

\* the login path of one client that waits out the longest backoff after
\* each of its attempts
SaturateTicks == {1800000}
InitSaturate == InitWith(TRUE, StrongA)
NextSaturate ==
    \/ /\ ops < MaxOpsSaturate
       /\ ops = ticks
       /\ \E code \in {StrongA, StrongB} : LoginBegin(1, "ip1", "s1", code, NoTotp)
    \/ LoginVerify(1)
    \/ /\ ticks < MaxTicksSaturate
       /\ ticks < ops
       /\ req[1].op = "idle"
       /\ \E d \in SaturateTicks : Tick(d)
SpecSaturate == InitSaturate /\ [][NextSaturate]_vars

\* the login path of one client around the end of the 15-minute window
WindowTicks == {2000, 899000}
InitWindow == InitWith(TRUE, StrongA)
NextWindow ==
    \/ /\ ops < MaxOpsWindow
       /\ \E code \in {StrongA, StrongB} : LoginBegin(1, "ip1", "s1", code, NoTotp)
    \/ LoginVerify(1)
    \/ /\ ticks < MaxTicksWindow
       /\ \E d \in WindowTicks : Tick(d)
SpecWindow == InitWindow /\ [][NextWindow]_vars

\* the login path of two clients, one request at a time
IdentitiesTicks == {4000, 900000}
InitIdentities == InitWith(TRUE, StrongA)
NextIdentities ==
    \/ /\ ops < MaxOpsIdentities
       /\ \E ip \in IPs, code \in {StrongA, StrongB} :
             LoginBegin(1, ip, IF ip = "ip1" THEN "s1" ELSE "s2", code, NoTotp)
    \/ LoginVerify(1)
    \/ /\ ticks < MaxTicksIdentities
       /\ \E d \in IdentitiesTicks : Tick(d)
SpecIdentities == InitIdentities /\ [][NextIdentities]_vars

\* rotation in production and in development
PolicyCodes == {ShortCode, Password, DevCode, PlainLong, StrongB}
InitPolicy == InitWith(TRUE, StrongA) \/ InitWith(FALSE, DevCode)
NextPolicy ==
    \/ /\ ops < MaxOpsPolicy
       /\ \/ \E code \in {DevCode, StrongA} :
                LoginBegin(1, "ip1", "s1", code, NoTotp)
          \/ \E currentCode \in {DevCode, StrongA}, newCode \in PolicyCodes :
                RotateBegin(1, "ip1", "s1", currentCode, newCode, FALSE)
    \/ LoginVerify(1)
    \/ RotateCompare(1)
    \/ RotateCommit(1)
SpecPolicy == InitPolicy /\ [][NextPolicy]_vars

(***************************************************************************)
(* Steps named by the claims                                               *)
(***************************************************************************)
\* a login request of ip enters the handler
\* (every operation counts itself in ops, and either answers at once or
\* occupies a slot)
LoginEntry(ip) ==
    /\ ops' = ops + 1
    /\ \/ \E r \in Reqs : /\ req[r].op = "idle"
                          /\ req'[r].op = "login"
                          /\ req'[r].ip = ip
       \/ /\ req' = req
          /\ resp'.op = "login"
          /\ resp'.ip = ip
\* a failure of ip is recorded
FailureRecorded(ip) ==
    \/ adminAuthTracker' = RecordFailedAdminAttempt(adminAuthTracker, ip, now)
    \/ adminAuthTracker' = RecordFailedAdminAttempt(
                              TrackerAfterCheck(adminAuthTracker, ip, now), ip, now)
\* a login of ip ends with a session
LoginSucceeded(ip) ==
    \E r \in Reqs : /\ req[r].op = "login"
                    /\ req[r].ip = ip
                    /\ req'[r].op = "idle"
                    /\ resp'.status = 200
\* number of failures of ip recorded inside the window
FailuresInWindow(ip) ==
    Len(RecentAttempts(EntryOf(adminAuthTracker, ip).attempts, now))
\* the backoff after the last failure of ip has not elapsed
InBackoff(ip) ==
    LET data == EntryOf(adminAuthTracker, ip)
    IN  /\ ip \in DOMAIN adminAuthTracker
        /\ data.attempts # <<>>
        /\ now - data.lastFailTime <
              Pow(EXPONENTIAL_BACKOFF_BASE, data.backoffLevel) * 1000

(***************************************************************************)
(* C1.  Two login requests of one identity are never both between the      *)
(* rate-limit check and the recording of their outcome when the failure    *)
(* one of them is about to record would have made the other limited.       *)
(***************************************************************************)
C1_CheckThenRecordSerialized ==
    \A r1, r2 \in Reqs :
        (/\ r1 # r2
         /\ req[r1].op = "login" /\ req[r1].pc = "compare"
         /\ req[r2].op = "login" /\ req[r2].pc = "compare"
         /\ req[r1].ip = req[r2].ip
         /\ ~req[r1].isCodeValid)
        => ~IsAdminRateLimited(
               RecordFailedAdminAttempt(adminAuthTracker, req[r1].ip, now),
               req[r2].ip, now).limited

(***************************************************************************)
(* C2.  Once three failures of an identity lie inside the window, a login  *)
(* entering before 2^backoffLevel seconds have passed since the last       *)
(* failure is answered 429 with waitTime > 0, whatever code it carries,    *)
(* and creates no session.                                                 *)
(***************************************************************************)
C2_RejectedInsideBackoff ==
    [][\A ip \in IPs :
          (/\ LoginEntry(ip)
           /\ FailuresInWindow(ip) >= BASE_ADMIN_ATTEMPTS
           /\ InBackoff(ip))
          => /\ resp'.status = 429
             /\ resp'.waitTime > 0
             /\ sessions' = sessions
             /\ req' = req]_vars
C2_Witness ==
    /\ resp.op = "login" /\ resp.status = 429 /\ resp.waitTime > 0
    /\ VerifyAdminCode(adminSettings, resp.code)
    /\ FailuresInWindow(resp.ip) >= BASE_ADMIN_ATTEMPTS
    /\ InBackoff(resp.ip)
    /\ \A s \in SIDs : ~sessions[s].isAdminAuthenticated

(***************************************************************************)
(* C3 as stated.  The wait needed before the next allowed attempt is, at   *)
(* each recorded failure, at least the wait that was needed after the      *)
(* failure before it, and it is zero right after a successful login.       *)
(***************************************************************************)
C3_RequiredWaitNonDecreasing ==
    [][\A ip \in IPs :
          /\ FailureRecorded(ip) => waitAfterFail'[ip] >= waitAfterFail[ip]
          /\ LoginSucceeded(ip)
                => RequiredWait(adminAuthTracker', ip, now) = 0]_vars

(***************************************************************************)
(* C3 amended.  The backoff wait reported right after a failure            *)
(* (min(2^backoffLevel s, 30 min)) is at least the one reported right      *)
(* after the failure before it, and right after a successful login         *)
(* isAdminRateLimited answers not limited.                                 *)
(***************************************************************************)
C3_BackoffNonDecreasing ==
    [][\A ip \in IPs :
          /\ (FailureRecorded(ip) /\ EntryOf(adminAuthTracker, ip).lastFailTime # 0)
                => /\ IsAdminRateLimited(adminAuthTracker', ip, now).limited
                   /\ IsAdminRateLimited(adminAuthTracker', ip, now).waitTime >=
                        CeilDiv(BackoffTime(
                            EntryOf(adminAuthTracker, ip).backoffLevel), 1000)
          /\ LoginSucceeded(ip)
                => ~IsAdminRateLimited(adminAuthTracker', ip, now).limited]_vars
C3_Witness ==
    /\ resp.op = "login" /\ resp.status = 200
    /\ resp.ip \notin DOMAIN adminAuthTracker
    /\ Cardinality({i \in 1..Len(auditLogs) :
                       /\ auditLogs[i].action = "auth_failed"
                       /\ auditLogs[i].ipAddress = resp.ip}) >= 2

(***************************************************************************)
(* C9.  A login that isAdminRateLimited reports limited is answered 429    *)
(* with that waitTime and goes no further: no verification is started,     *)
(* the stored settings, the identity's backoffLevel and lastFailTime and   *)
(* all sessions stay as they are.                                          *)
(***************************************************************************)
C9_LimitedStopsAtEntry ==
    [][\A ip \in IPs :
          (LoginEntry(ip) /\ IsAdminRateLimited(adminAuthTracker, ip, now).limited)
          => /\ resp'.status = 429
             /\ resp'.waitTime =
                   IsAdminRateLimited(adminAuthTracker, ip, now).waitTime
             /\ req' = req
             /\ adminSettings' = adminSettings
             /\ sessions' = sessions
             /\ EntryOf(adminAuthTracker', ip).backoffLevel =
                   EntryOf(adminAuthTracker, ip).backoffLevel
             /\ EntryOf(adminAuthTracker', ip).lastFailTime =
                   EntryOf(adminAuthTracker, ip).lastFailTime]_vars
C9_Witness ==
    /\ resp.op = "login" /\ resp.status = 429
    /\ IsAdminRateLimited(adminAuthTracker, resp.ip, now).limited
    /\ resp.waitTime = IsAdminRateLimited(adminAuthTracker, resp.ip, now).waitTime
    /\ \A r \in Reqs : req[r].op = "idle"

\* a guarded request on session sid enters requireAdminSession
GuardedEntry(sid) ==
    /\ ops' = ops + 1
    /\ \/ \E r \in Reqs : /\ req[r].op = "idle"
                          /\ req'[r].op = "rotate"
                          /\ req'[r].sid = sid
       \/ /\ req' = req
          /\ resp'.op \in {"settings", "portfolio", "rotate"}
          /\ resp'.sid = sid
\* the guard did not let the request through
TurnedAway ==
    /\ req' = req
    /\ resp'.body \in {"session_required", "session_expired", "threw"}
AllCodes == {ShortCode, DevCode, StrongA, StrongB, LongA, LongB, Admin123}

(***************************************************************************)
(* C4.  A guarded request on a session younger than maxAge passes the      *)
(* guard; one made when now - loginTime >= maxAge, the instant             *)
(* loginTime + maxAge included, is answered 401 session expired and the    *)
(* session is removed.                                                     *)
(***************************************************************************)
C4_ExpiredAtMaxAge ==
    [][\A sid \in SIDs :
          (GuardedEntry(sid) /\ sessions[sid].isAdminAuthenticated)
          => IF SessionAge(sessions[sid], now) >= MAX_SESSION_AGE
             THEN /\ resp'.status = 401
                  /\ resp'.body = "session_expired"
                  /\ sessions'[sid] = Anonymous
             ELSE ~TurnedAway]_vars

(***************************************************************************)
(* C5.  The handler of a guarded operation runs only on a session that is  *)
(* authenticated and younger than maxAge; otherwise the answer is 401 and  *)
(* the portfolio record and the stored settings are unchanged.             *)
(***************************************************************************)
C5_HandlerOnlyWithLiveSession ==
    [][\A sid \in SIDs :
          GuardedEntry(sid)
          => IF /\ sessions[sid].isAdminAuthenticated
                /\ SessionAge(sessions[sid], now) < MAX_SESSION_AGE
             THEN ~TurnedAway
             ELSE /\ TurnedAway
                  /\ resp'.status = 401
                  /\ portfolio' = portfolio
                  /\ adminSettings' = adminSettings]_vars

\* the rotate request in slot r gets the answer of bcrypt.compare
RotateAnswered(r) ==
    /\ req[r].op = "rotate" /\ req[r].pc = "compare"
    /\ req'[r] # req[r]

(***************************************************************************)
(* C6 as stated.  A rotation whose currentCode did not verify is answered  *)
(* 401 and leaves the stored settings unchanged; afterwards the old code   *)
(* still verifies and the proposed new code does not.                      *)
(***************************************************************************)
C6_RejectedRotationNewCodeFails ==
    [][\A r \in Reqs :
          (RotateAnswered(r) /\ ~req[r].isCodeValid)
          => /\ resp'.status = 401
             /\ adminSettings' = adminSettings
             /\ \A c \in AllCodes : VerifyAdminCode(adminSettings, c)
                                       => VerifyAdminCode(adminSettings', c)
             /\ ~VerifyAdminCode(adminSettings', req[r].newCode)]_vars

(***************************************************************************)
(* C6 amended.  A rotation whose currentCode did not verify is answered    *)
(* 401, the request ends, and the stored settings are unchanged: every     *)
(* code verifies afterwards exactly if it verified before, so the old      *)
(* code still does and the proposed new code does only if it already did.  *)
(***************************************************************************)
C6_RejectedRotationChangesNothing ==
    [][\A r \in Reqs :
          (RotateAnswered(r) /\ ~req[r].isCodeValid)
          => /\ resp'.status = 401
             /\ resp'.op = "rotate"
             /\ req'[r] = IdleReq
             /\ adminSettings' = adminSettings
             /\ \A c \in AllCodes : VerifyAdminCode(adminSettings', c)
                                       <=> VerifyAdminCode(adminSettings, c)]_vars
C6_Witness ==
    /\ resp.op = "rotate" /\ resp.status = 401
    /\ sessions[resp.sid].isAdminAuthenticated
    /\ ~VerifyAdminCode(adminSettings, resp.code)
    /\ ~VerifyAdminCode(adminSettings, resp.newCode)
    /\ \E c \in AllCodes : VerifyAdminCode(adminSettings, c)

(***************************************************************************)
(* C7.  With a second factor enrolled, a login creates a session only if   *)
(* verifyTotpCode accepts the totpCode it carries.                         *)
(***************************************************************************)
C7_SessionNeedsVerifiedTotp ==
    [][\A r \in Reqs :
          (/\ req[r].op = "login" /\ req'[r].op = "idle"
           /\ adminSettings.totpSecret # NoTotpSecret
           /\ resp'.status = 200)
          => VerifyTotpCode(adminSettings.totpSecret, req[r].totpCode, now)]_vars

(***************************************************************************)
(* C8.  A login whose code verified, with a second factor enrolled and no  *)
(* totpCode, is answered 400 "TOTP required"; the attempt tracker and the  *)
(* sessions are unchanged.                                                 *)
(***************************************************************************)
C8_TotpRequiredIsNoFailure ==
    [][\A r \in Reqs :
          (/\ req[r].op = "login" /\ req'[r].op = "idle"
           /\ req[r].isCodeValid
           /\ adminSettings.totpSecret # NoTotpSecret
           /\ req[r].totpCode = NoTotp)
          => /\ resp'.status = 400
             /\ resp'.body = "totp_required"
             /\ adminAuthTracker' = adminAuthTracker
             /\ sessions' = sessions]_vars
C8_Witness ==
    /\ resp.op = "login" /\ resp.body = "totp_required"
    /\ resp.totpCode = NoTotp
    /\ adminSettings.totpSecret # NoTotpSecret
    /\ VerifyAdminCode(adminSettings, resp.code)
    /\ ~sessions[resp.sid].isAdminAuthenticated
    /\ resp.ip \in DOMAIN adminAuthTracker
    /\ adminAuthTracker[resp.ip].backoffLevel = 0

(***************************************************************************)
(* C10.  When a rotation replaces the stored code by newCode, newCode      *)
(* verifies afterwards and no other code that verified before does; and    *)
(* the stored code changes in no other step.                               *)
(***************************************************************************)
C10_RotationSwitchesTheCode ==
    [][/\ \A r \in Reqs :
             (req[r].op = "rotate" /\ req[r].pc = "hash" /\ req'[r].op = "idle")
             => /\ VerifyAdminCode(adminSettings', req[r].newCode)
                /\ \A old \in AllCodes :
                      (old # req[r].newCode /\ VerifyAdminCode(adminSettings, old))
                      => ~VerifyAdminCode(adminSettings', old)
       /\ (adminSettings # NoSettings /\ adminSettings' # adminSettings)
             => \E r \in Reqs : req[r].op = "rotate" /\ req[r].pc = "hash"
                                /\ req'[r].op = "idle"]_vars

(***************************************************************************)
(* C11.  Once the settings record exists, exactly one code verifies        *)
(* against it, in every state: a rotation replaces the record in one step, *)
(* so no state has both the old and the new code verifying, and none has   *)
(* neither.                                                                *)
(***************************************************************************)
C11_ExactlyOneCodeVerifies ==
    adminSettings # NoSettings
    => Cardinality({c \in AllCodes : VerifyAdminCode(adminSettings, c)}) = 1

\* a rotate-code request is answered before bcrypt.compare is reached
RotateAnsweredAtOnce ==
    /\ ops' = ops + 1
    /\ req' = req
    /\ resp'.op = "rotate"

(***************************************************************************)
(* C12.  A rotate-code request of a valid session whose currentCode        *)
(* verifies and whose newCode fails the strength policy is answered 400,   *)
(* and the stored settings are unchanged.                                  *)
(***************************************************************************)
C12_PolicyViolationIs400 ==
    [][/\ (/\ RotateAnsweredAtOnce
           /\ GuardPasses(sessions[resp'.sid], now)
           /\ VerifyAdminCode(adminSettings, resp'.code)
           /\ ~ValidateAdminCodeStrength(Trim(resp'.newCode), isProduction))
          => /\ resp'.status = 400
             /\ adminSettings' = adminSettings
       /\ \A r \in Reqs :
             (/\ RotateAnswered(r)
              /\ req[r].isCodeValid
              /\ ~ValidateAdminCodeStrength(req[r].newCode, isProduction))
             => /\ resp'.status = 400
                /\ adminSettings' = adminSettings]_vars

\* a login request is answered
LoginAnswered ==
    \/ /\ ops' = ops + 1
       /\ req' = req
       /\ resp'.op = "login"
    \/ \E r \in Reqs : req[r].op = "login" /\ req'[r].op = "idle"
\* one entry with this action is appended to the audit log
Appended(action) ==
    /\ Len(auditLogs') = Len(auditLogs) + 1
    /\ SubSeq(auditLogs', 1, Len(auditLogs)) = auditLogs
    /\ auditLogs'[Len(auditLogs')].action = action

(***************************************************************************)
(* C13.  A login answered 429 (rate limited) or 401 (invalid credentials)  *)
(* appends exactly one auth_failed entry to the audit log, and login       *)
(* appends an auth_failed entry in no other case.                          *)
(***************************************************************************)
C13_RejectedLoginAudited ==
    [][LoginAnswered
       => IF resp'.status \in {429, 401}
          THEN Appended("auth_failed")
          ELSE ~Appended("auth_failed")]_vars

(***************************************************************************)
(* C14.  A login that creates a session appends exactly one auth_success   *)
(* entry, and an auth_success entry is appended only by a login that       *)
(* leaves its session authenticated.                                       *)
(***************************************************************************)
C14_SuccessAuditedOnce ==
    [][/\ (LoginAnswered /\ resp'.status = 200) => Appended("auth_success")
       /\ (/\ auditLogs' # auditLogs
           /\ auditLogs'[Len(auditLogs')].action = "auth_success")
          => /\ LoginAnswered
             /\ resp'.status = 200
             /\ Appended("auth_success")
             /\ sessions'[resp'.sid].isAdminAuthenticated
             /\ sessions'[resp'.sid].loginTime = now]_vars
C14_Witness ==
    /\ resp.op = "login" /\ resp.status = 200
    /\ sessions[resp.sid].isAdminAuthenticated
    /\ auditLogs # <<>>
    /\ auditLogs[Len(auditLogs)].action = "auth_success"
    /\ Cardinality({i \in 1..Len(auditLogs) :
                       auditLogs[i].action = "auth_success"}) = 1

\* the changes payloads the routes write
AuditChanges == {"invalid_code", "session_login", "no_session", "sessionAge",
                 "logout_endpoint", "invalid_current_code",
                 "admin_code_changed"}

(***************************************************************************)
(* C15.  No stored audit entry holds a submitted code: the actor field of  *)
(* every entry is the fixed masked identifier whatever the caller passed,  *)
(* the changes payload is one of the fixed reasons, and the resource id is *)
(* absent or the settings id.                                              *)
(***************************************************************************)
C15_AuditHoldsNoSecret ==
    \A i \in 1..Len(auditLogs) :
        /\ auditLogs[i].adminCode = MaskedAdminId
        /\ auditLogs[i].changes \in AuditChanges
        /\ auditLogs[i].resourceId \in {"none", SettingsId}
C15_Witness ==
    /\ resp.op = "login" /\ resp.status = 401
    /\ ~VerifyAdminCode(adminSettings, resp.code)
    /\ \E i, j \in 1..Len(auditLogs) :
          /\ auditLogs[i].action = "auth_failed"
          /\ auditLogs[i].changes = "invalid_code"
          /\ auditLogs[j].action = "auth_success"

(***************************************************************************)
(* C16.  A successful login of an identity deletes its attempt record, and *)
(* the first failure recorded after it leaves backoffLevel 1 and that one  *)
(* failure time, however many failures came before the success.            *)
(***************************************************************************)
C16_SuccessStartsAfresh ==
    [][\A ip \in IPs :
          /\ LoginSucceeded(ip) => ip \notin DOMAIN adminAuthTracker'
          /\ (FailureRecorded(ip) /\ waitAfterFail[ip] = 0)
                => adminAuthTracker'[ip] =
                      [attempts |-> <<now>>, lastFailTime |-> now,
                       backoffLevel |-> 1]]_vars
C16_Witness ==
    /\ Len(auditLogs) = 4
    /\ \A i \in 1..2 : auditLogs[i].action = "auth_failed"
    /\ auditLogs[3].action = "auth_success"
    /\ auditLogs[4].action = "auth_failed"
    /\ resp.op = "login" /\ resp.status = 401
    /\ resp.ip \in DOMAIN adminAuthTracker
    /\ adminAuthTracker[resp.ip].backoffLevel = 1
    /\ adminAuthTracker[resp.ip].attempts = <<now>>

\* GET /api/admin/session is answered
StatusAnswered ==
    /\ ops' = ops + 1
    /\ req' = req
    /\ resp'.op = "session"

(***************************************************************************)
(* C17.  GET /api/admin/session answers authenticated:false for a session  *)
(* older than maxAge; for an authenticated session within maxAge it        *)
(* answers authenticated:true with remainingTime = maxAge - (now -         *)
(* loginTime).                                                             *)
(***************************************************************************)
C17_StatusFollowsAge ==
    [][StatusAnswered
       => LET session == sessions[resp'.sid]
          IN  IF /\ session.isAdminAuthenticated
                 /\ SessionAge(session, now) <= MAX_SESSION_AGE
              THEN /\ resp'.body = "authenticated"
                   /\ resp'.remainingTime =
                         MAX_SESSION_AGE - SessionAge(session, now)
              ELSE resp'.body = "unauthenticated"]_vars

\* POST /api/admin/logout is answered
LogoutAnswered ==
    /\ ops' = ops + 1
    /\ req' = req
    /\ resp'.op = "logout"

(***************************************************************************)
(* C18.  Logout always succeeds and leaves the session absent; on a        *)
(* session that is already absent it changes nothing, so two logouts in a  *)
(* row leave the state of one; a guarded request on an absent session is   *)
(* answered 401.                                                           *)
(***************************************************************************)
C18_LogoutIdempotent ==
    [][/\ LogoutAnswered
          => /\ resp'.status = 200
             /\ sessions' = [sessions EXCEPT ![resp'.sid] = Anonymous]
             /\ sessions[resp'.sid] = Anonymous
                   => UNCHANGED <<sessions, auditLogs, adminAuthTracker,
                                  adminSettings, portfolio>>
       /\ \A sid \in SIDs :
             (GuardedEntry(sid) /\ sessions[sid] = Anonymous)
             => TurnedAway /\ resp'.status = 401]_vars
C18_Witness ==
    /\ resp.op = "logout" /\ resp.status = 200
    /\ \A sid \in SIDs : sessions[sid] = Anonymous
    /\ \E i \in 1..Len(auditLogs) : auditLogs[i].action = "logout"
    /\ auditLogs[Len(auditLogs)].action # "logout"

(***************************************************************************)
(* C19.  Whether or not the audit entry could be written, a login that     *)
(* went through verification is answered as the credential check decided:  *)
(* 401 with one failure recorded and no session on an invalid code, 200    *)
(* with the session authenticated and the attempt record deleted on a      *)
(* valid one.                                                              *)
(***************************************************************************)
C19_AuditFailureChangesNothing ==
    [][\A r \in Reqs :
          (req[r].op = "login" /\ req'[r].op = "idle")
          => IF ~req[r].isCodeValid
             THEN /\ resp'.status = 401
                  /\ adminAuthTracker' =
                        RecordFailedAdminAttempt(adminAuthTracker, req[r].ip, now)
                  /\ sessions' = sessions
             ELSE IF TotpRequired(adminSettings, req[r].totpCode)
             THEN resp'.status = 400
             ELSE /\ resp'.status = 200
                  /\ sessions'[req[r].sid].isAdminAuthenticated
                  /\ adminAuthTracker' =
                        ResetAdminAttempts(adminAuthTracker, req[r].ip)]_vars

(***************************************************************************)
(* C20.  No production instance runs with ADMIN_CODE absent or set to the  *)
(* default: startup refuses such a configuration, so no login is served    *)
(* under it and the stored settings never hold the default code.           *)
(***************************************************************************)
C20_NoProductionDefault ==
    isProduction
    => /\ envAdminCode # NoCode
       /\ envAdminCode # Admin123
       /\ adminSettings # NoSettings => ~VerifyAdminCode(adminSettings, Admin123)
C20_Witness ==
    /\ isProduction
    /\ adminSettings # NoSettings
    /\ VerifyAdminCode(adminSettings, envAdminCode)
    /\ resp.op = "login" /\ resp.status = 200

\* a rotate-code request gets its answer
RotateFinished ==
    \/ RotateAnsweredAtOnce
    \/ \E r \in Reqs : req[r].op = "rotate" /\ req'[r].op = "idle"
\* the answer is the one given after updateAdminSettings replaced the code
RotateCommitted ==
    \E r \in Reqs : /\ req[r].op = "rotate" /\ req[r].pc = "hash"
                    /\ req'[r].op = "idle"

(***************************************************************************)
(* C21.  Every rotate-code request appends exactly one rotation audit      *)
(* entry when it is answered: code_rotation_success if and only if the     *)
(* stored credential was replaced, and code_rotation_failed whenever the   *)
(* session check or the check of currentCode fails (answer 401).           *)
(***************************************************************************)
C21_RotationAuditedOnce ==
    [][RotateFinished
       => /\ \/ Appended("code_rotation_success")
             \/ Appended("code_rotation_failed")
          /\ Appended("code_rotation_success") <=> RotateCommitted
          /\ (resp'.status = 401 \/ TurnedAway)
                => Appended("code_rotation_failed")]_vars

\* the policy as the interface states it
PolicyAccepts(code, prod) ==
    /\ ToLowerCase(code) \notin WEAK_PASSWORDS
    /\ IF prod
       THEN /\ Len(code) >= 12
            /\ \A class \in {UpperChars, LowerChars, DigitChars, SpecialChars} :
                  \E i \in 1..Len(code) : code[i] \in class
       ELSE Len(code) >= 8

(***************************************************************************)
(* C22.  A rotate-code request of a valid session whose currentCode        *)
(* verifies goes on to replace the code exactly when newCode meets the     *)
(* policy of the environment: in production 12 characters with all four    *)
(* character classes and not deny-listed, elsewhere 8 characters and not   *)
(* deny-listed.                                                            *)
(***************************************************************************)
C22_PolicyFollowsEnvironment ==
    [][/\ (/\ RotateAnsweredAtOnce
           /\ GuardPasses(sessions[resp'.sid], now)
           /\ VerifyAdminCode(adminSettings, resp'.code))
          => ~PolicyAccepts(Trim(resp'.newCode), isProduction)
       /\ \A r \in Reqs :
             (RotateAnswered(r) /\ req[r].isCodeValid)
             => (req'[r].pc = "hash"
                   <=> PolicyAccepts(req[r].newCode, isProduction))]_vars

\* stored settings that differ from the present ones in adminCode and
\* totpSecret only
SettingsVariants ==
    {[adminSettings EXCEPT !.adminCode = BcryptHash(code), !.totpSecret = totp] :
        code \in AllCodes, totp \in {NoTotpSecret, TotpSecretValue}}

(***************************************************************************)
(* C23.  The answer of GET /api/admin/settings has no field for the hash   *)
(* of the admin code or for the second-factor secret, and it is the same   *)
(* for all stored settings that differ only in adminCode and totpSecret.   *)
(***************************************************************************)
C23_SettingsReadHidesSecrets ==
    (resp.op = "settings" /\ resp.status = 200)
    => /\ DOMAIN resp.settings \cap {"adminCode", "totpSecret"} = {}
       /\ \A other \in SettingsVariants :
             resp.settings = GetPublicAdminSettings(other)
\* the settings are read after the admin code was rotated
C23_Witness ==
    /\ resp.op = "settings" /\ resp.status = 200
    /\ adminSettings.adminCode = BcryptHash(StrongB)

\* the submissions of ip answered 200 whose request times lie in the hour
\* that ends with t
AcceptedInHour(acc, ip, t) ==
    {i \in 1..Len(acc[ip]) : acc[ip][i] <= t /\ t - acc[ip][i] < HOUR_IN_MS}
\* a contact submission of ip enters the handler
ContactEntry(ip) ==
    /\ ops' = ops + 1
    /\ \/ \E r \in Reqs : /\ req[r].op = "idle"
                          /\ req'[r].op = "contact"
                          /\ req'[r].ip = ip
       \/ /\ req' = req
          /\ resp'.op = "contact"
          /\ resp'.ip = ip

(***************************************************************************)
(* C24.  For every client address at most 5 contact submissions are        *)
(* accepted within any one hour, and a submission made when 5 were         *)
(* accepted within the hour is answered 429, also when submissions of the  *)
(* address are in flight together.                                         *)
(***************************************************************************)
C24_FivePerHour ==
    [][\A ip \in IPs :
          /\ Cardinality(AcceptedInHour(accepted', ip, now))
                <= MAX_SUBMISSIONS_PER_HOUR
          /\ (/\ ContactEntry(ip)
              /\ Cardinality(AcceptedInHour(accepted, ip, now))
                    >= MAX_SUBMISSIONS_PER_HOUR)
             => (req' = req /\ resp'.status = 429)]_vars

\* times at which the limiter is asked, as delays from the present
CheckDelays == {0, 500, 2000, 8000, 900000}
\* the reference result: the branch taken and, in backoff, the seconds left
ReferenceBackoffMs(level) ==
    IF 2 ^ level * 1000 < 30 * 60 * 1000 THEN 2 ^ level * 1000
    ELSE 30 * 60 * 1000
ReferenceYoung(data, t) ==
    {i \in 1..Len(data.attempts) : t - data.attempts[i] < 15 * 60 * 1000}
ReferenceSeconds(ms) == ms \div 1000 + (IF ms % 1000 = 0 THEN 0 ELSE 1)
ReferenceInBackoff(data, t) ==
    /\ data.lastFailTime # 0
    /\ t - data.lastFailTime < ReferenceBackoffMs(data.backoffLevel)
ReferenceOverCount(data, t) ==
    Cardinality(ReferenceYoung(data, t)) >= 3 + data.backoffLevel \div 3

(***************************************************************************)
(* C25.  For every tracker state reached and every time asked,             *)
(* isAdminRateLimited answers as the reference does: limited with          *)
(* ceil(backoff - (now - lastFailTime)) seconds of wait while a failure    *)
(* exists and its backoff runs; otherwise limited when the failures        *)
(* younger than 15 minutes number 3 + floor(backoffLevel / 3) or more;     *)
(* otherwise not limited.                                                  *)
(***************************************************************************)
C25_LimiterMatchesReference ==
    \A ip \in IPs, d \in CheckDelays :
        LET data == EntryOf(adminAuthTracker, ip)
            t == now + d
            answer == IsAdminRateLimited(adminAuthTracker, ip, t)
        IN  IF ReferenceInBackoff(data, t)
            THEN /\ answer.limited
                 /\ answer.waitTime =
                       ReferenceSeconds(ReferenceBackoffMs(data.backoffLevel)
                                           - (t - data.lastFailTime))
            ELSE answer.limited <=> ReferenceOverCount(data, t)
\* a record whose backoff has just run out and whose failures in the window
\* reach the threshold
C25_Witness ==
    LET data == EntryOf(adminAuthTracker, "ip1")
    IN  /\ "ip1" \in DOMAIN adminAuthTracker
        /\ ~ReferenceInBackoff(data, now)
        /\ ReferenceOverCount(data, now)
        /\ ReferenceInBackoff(data, now - 500)

\* a login of ip is answered 429 by the rate-limit check
LoginRateLimited(ip) ==
    /\ LoginEntry(ip)
    /\ req' = req
    /\ resp'.status = 429

(***************************************************************************)
(* C26.  The disclosed wait is sufficient: when a login is answered 429    *)
(* with waitTime w seconds and the identity makes no attempt during those  *)
(* w seconds, the rate-limit check made w seconds later answers not        *)
(* limited.                                                                *)
(***************************************************************************)
C26_DisclosedWaitSuffices ==
    [][\A ip \in IPs :
          LoginRateLimited(ip)
          => ~IsAdminRateLimited(adminAuthTracker', ip,
                                 now + resp'.waitTime * 1000).limited]_vars

(***************************************************************************)
(* C27.  The tracker holds a record for an identity only if the identity   *)
(* had a failed login since its last successful one, and a record comes    *)
(* into being only by the recording of a failure.                          *)
(***************************************************************************)
C27_RecordOnlyAfterFailure ==
    [][\A ip \in IPs :
          /\ ip \in DOMAIN adminAuthTracker' => waitAfterFail'[ip] > 0
          /\ (ip \notin DOMAIN adminAuthTracker
                 /\ ip \in DOMAIN adminAuthTracker')
             => FailureRecorded(ip)]_vars

\* the longest an identity may have to wait: the larger of its present
\* backoff and the window
LockoutBound(ip) ==
    Max(BackoffTime(EntryOf(adminAuthTracker, ip).backoffLevel), FIFTEEN_MIN_MS)
\* with no further failure, ip is free within its bound and from then on
FreeWithinBound(ip) ==
    /\ RequiredWait(adminAuthTracker, ip, now) <= LockoutBound(ip)
    /\ \A d \in CheckDelays :
          ~IsAdminRateLimited(adminAuthTracker, ip,
                              now + LockoutBound(ip) + d).limited

(***************************************************************************)
(* C28.  No permanent lockout: in every state reached, for every           *)
(* identity, when no further failure is recorded the rate-limit check      *)
(* answers not limited after at most the larger of the present backoff     *)
(* and the 15-minute window; and a login that passes the check with the    *)
(* correct code ends with a session.                                       *)
(***************************************************************************)
C28_NoPermanentLockout ==
    [][/\ \A ip \in IPs : FreeWithinBound(ip)'
       /\ \A r \in Reqs :
             (/\ req[r].op = "idle" /\ req'[r].op = "login"
              /\ VerifyAdminCode(adminSettings', req'[r].code))
             => req'[r].isCodeValid
       /\ \A r \in Reqs :
             (/\ req[r].op = "login" /\ req'[r].op = "idle"
              /\ req[r].isCodeValid)
             => /\ resp'.status = 200
                /\ sessions'[req[r].sid].isAdminAuthenticated]_vars
\* a correct login succeeds after the identity was held off by the count of
\* its failures in the window
C28_Witness ==
    /\ resp.op = "login" /\ resp.status = 200
    /\ Cardinality({i \in 1..Len(auditLogs) :
                       auditLogs[i].action = "auth_failed"}) >= 4
    /\ auditLogs[Len(auditLogs)].action = "auth_success"
    /\ Len(auditLogs) = 5

\* the level of the record of ip
LevelOf(tr, ip) == EntryOf(tr, ip).backoffLevel

(***************************************************************************)
(* C29.  Every attempt record has a backoffLevel from 0 to 10; recording   *)
(* a failure raises the level by exactly 1 below 10 and leaves it at 10;   *)
(* the level never decreases while the record exists, and a record goes    *)
(* away only by a successful login; the backoff is at most 2^10 s = 1024 s *)
(* and so below the 30-minute cap.                                         *)
(***************************************************************************)
C29_LevelBoundedAndMonotone ==
    [][\A ip \in IPs :
          /\ ip \in DOMAIN adminAuthTracker'
                => /\ LevelOf(adminAuthTracker', ip) \in 0..10
                   /\ BackoffTime(LevelOf(adminAuthTracker', ip)) <= 1024 * 1000
                   /\ BackoffTime(LevelOf(adminAuthTracker', ip)) <= MAX_BACKOFF_TIME
          /\ FailureRecorded(ip)
                => LevelOf(adminAuthTracker', ip) =
                      IF LevelOf(adminAuthTracker, ip) < 10
                      THEN LevelOf(adminAuthTracker, ip) + 1 ELSE 10
          /\ (ip \in DOMAIN adminAuthTracker /\ ip \in DOMAIN adminAuthTracker')
                => LevelOf(adminAuthTracker', ip) >= LevelOf(adminAuthTracker, ip)
          /\ (ip \in DOMAIN adminAuthTracker /\ ip \notin DOMAIN adminAuthTracker')
                => LoginSucceeded(ip)]_vars
\* a failure is recorded on a record that is at level 10
C29_Witness ==
    /\ "ip1" \in DOMAIN adminAuthTracker
    /\ LevelOf(adminAuthTracker, "ip1") = 10
    /\ Cardinality({i \in 1..Len(auditLogs) :
                       auditLogs[i].action = "auth_failed"}) = 11

(***************************************************************************)
(* C30.  Failure timestamps of 15 minutes of age or more are pruned at     *)
(* every rate-limit check: outside the backoff the check answers limited   *)
(* exactly when the timestamps younger than 15 minutes reach the           *)
(* threshold, and after a check on an existing record every timestamp      *)
(* stored for the identity is younger than 15 minutes.                     *)
(***************************************************************************)
C30_PrunedAtEveryCheck ==
    [][\A ip \in IPs :
          LoginEntry(ip)
          => /\ ~ReferenceInBackoff(EntryOf(adminAuthTracker, ip), now)
                   => (LoginRateLimited(ip)
                         <=> ReferenceOverCount(EntryOf(adminAuthTracker, ip), now))
             /\ (ip \in DOMAIN adminAuthTracker /\ ip \in DOMAIN adminAuthTracker')
                   => \A i \in 1..Len(adminAuthTracker'[ip].attempts) :
                         now - adminAuthTracker'[ip].attempts[i] < FIFTEEN_MIN_MS]_vars
\* a check answered limited inside the backoff of the second failure has
\* dropped the first failure, which had just left the window
C30_Witness ==
    /\ resp.op = "login" /\ resp.status = 429
    /\ now = StartTime + 899000 + 2000
    /\ "ip1" \in DOMAIN adminAuthTracker
    /\ adminAuthTracker["ip1"] =
          [attempts |-> <<StartTime + 899000>>,
           lastFailTime |-> StartTime + 899000, backoffLevel |-> 2]

\* a login of ip is answered 401: the code it submitted did not verify
LoginCodeRejected(ip) ==
    \E r \in Reqs : /\ req[r].op = "login"
                    /\ req[r].ip = ip
                    /\ ~req[r].isCodeValid
                    /\ req'[r].op = "idle"
                    /\ resp'.status = 401

(***************************************************************************)
(* C31.  The backoffLevel of an identity rises only in the step that       *)
(* answers one of its logins 401 because the submitted code failed         *)
(* verification, and then by exactly 1; a login that ends otherwise        *)
(* (success, 429, 400, or 500 after an exception) records no failure.      *)
(***************************************************************************)
C31_LevelRisesOnlyOnRejectedCode ==
    [][\A ip \in IPs :
          LevelOf(adminAuthTracker', ip) > LevelOf(adminAuthTracker, ip)
          => /\ LoginCodeRejected(ip)
             /\ LevelOf(adminAuthTracker', ip) =
                   LevelOf(adminAuthTracker, ip) + 1]_vars

\* a login on session sid ends with the session set up
SessionCreated(sid) ==
    \E r \in Reqs : /\ req[r].op = "login"
                    /\ req[r].sid = sid
                    /\ req'[r].op = "idle"
                    /\ sessions'[sid].isAdminAuthenticated
                    /\ sessions'[sid].loginTime = now

(***************************************************************************)
(* C32.  The lifetime of a session is absolute: loginTime is set only by   *)
(* a login (and cleared when the session is destroyed); a guarded request  *)
(* that is let through and the status read leave loginTime as it is, and   *)
(* no guarded request is let through later than loginTime + maxAge.        *)
(***************************************************************************)
C32_LifetimeIsAbsolute ==
    [][\A sid \in SIDs :
          /\ sessions'[sid].loginTime # sessions[sid].loginTime
                => SessionCreated(sid) \/ sessions'[sid] = Anonymous
          /\ (GuardedEntry(sid) /\ ~TurnedAway)
                => /\ sessions[sid].isAdminAuthenticated
                   /\ now <= sessions[sid].loginTime + MAX_SESSION_AGE
                   /\ sessions'[sid].loginTime = sessions[sid].loginTime
                   /\ sessions'[sid].lastActivity = now
          /\ StatusAnswered => sessions' = sessions]_vars
\* a guarded request is let through at the very end of the lifetime, after
\* an earlier one in the middle of it
C32_Witness ==
    \E sid \in SIDs :
        /\ sessions[sid].isAdminAuthenticated
        /\ resp.op = "settings" /\ resp.status = 200 /\ resp.sid = sid
        /\ now = sessions[sid].loginTime + MAX_SESSION_AGE
        /\ sessions[sid].lastActivity = now
        /\ ticks = 2

(***************************************************************************)
(* C33.  A rotation replaces the credential only if its currentCode        *)
(* verifies against the credential it replaces, so of two rotate-code      *)
(* requests in flight together that present the same old code at most one  *)
(* replaces the credential.                                                *)
(***************************************************************************)
C33_RotationVerifiesWhatItReplaces ==
    [][\A r \in Reqs :
          (/\ req[r].op = "rotate" /\ req[r].pc = "hash"
           /\ req'[r].op = "idle")
          => VerifyAdminCode(adminSettings, req[r].code)]_vars

\* a step of a login request of ip: its entry or its answer
LoginStepOf(ip) ==
    \/ LoginEntry(ip)
    \/ \E r \in Reqs : /\ req[r].op = "login"
                       /\ req[r].ip = ip
                       /\ req'[r].op = "idle"

(***************************************************************************)
(* C34.  Identities are independent: a step of a login of identity A,      *)
(* whatever its outcome, leaves the attempt record of every other          *)
(* identity B as it is, and with it the answer of the rate-limit check     *)
(* for B; a successful login of A does not clear the record of B.          *)
(***************************************************************************)
C34_IdentitiesIndependent ==
    [][\A a \in IPs, b \in IPs :
          (a # b /\ LoginStepOf(a))
          => /\ b \in DOMAIN adminAuthTracker' <=> b \in DOMAIN adminAuthTracker
             /\ EntryOf(adminAuthTracker', b) = EntryOf(adminAuthTracker, b)
             /\ \A d \in CheckDelays :
                   IsAdminRateLimited(adminAuthTracker', b, now + d)
                      = IsAdminRateLimited(adminAuthTracker, b, now + d)]_vars
\* one identity has logged in while the other has failures on record
C34_Witness ==
    \E a \in IPs, b \in IPs :
        /\ a # b
        /\ resp.op = "login" /\ resp.status = 200 /\ resp.ip = a
        /\ a \notin DOMAIN adminAuthTracker
        /\ b \in DOMAIN adminAuthTracker
        /\ adminAuthTracker[b].backoffLevel >= 1

\* a step of a request other than a login: the status read, logout, or a
\* guarded operation, at its entry or at a later step of rotate-code
OtherThanLoginStep ==
    \/ /\ ops' = ops + 1
       /\ req' = req
       /\ resp'.op \in {"session", "logout", "settings", "portfolio", "rotate"}
    \/ \E r \in Reqs : req[r].op = "idle" /\ req'[r].op = "rotate"
    \/ \E r \in Reqs : req[r].op = "rotate" /\ req'[r] # req[r]

(***************************************************************************)
(* C35.  The attempt tracker is changed by login only: the status read,    *)
(* the session guard and its rejections, logout and rotate-code, a         *)
(* rotation with a wrong currentCode included, leave every record of the   *)
(* tracker as it is.                                                       *)
(***************************************************************************)
C35_TrackerChangedByLoginOnly ==
    [][OtherThanLoginStep => adminAuthTracker' = adminAuthTracker]_vars
\* a rotation with a wrong currentCode is answered while the client has a
\* failure on record
C35_Witness ==
    /\ resp.op = "rotate" /\ resp.status = 401
    /\ resp.body = "current_code_invalid"
    /\ resp.ip \in DOMAIN adminAuthTracker
    /\ adminAuthTracker[resp.ip].backoffLevel >= 1

\* a login of ip is answered 400 by the schema
LoginInputRejected(ip) ==
    /\ LoginEntry(ip)
    /\ req' = req
    /\ resp'.status = 400
    /\ resp'.body = "invalid_input"

(***************************************************************************)
(* C36.  A login answered 400 for invalid input starts no verification of  *)
(* the code and reads no stored credential, creates no session, and        *)
(* records no failure: backoffLevel, lastFailTime and the failures in the  *)
(* window stay as they are, and so does the answer of every later          *)
(* rate-limit check for the identity.                                      *)
(***************************************************************************)
C36_InvalidInputChangesNothing ==
    [][\A ip \in IPs :
          LoginInputRejected(ip)
          => /\ \A r \in Reqs : req'[r].op = "login" => req[r].op = "login"
             /\ adminSettings' = adminSettings
             /\ sessions' = sessions
             /\ auditLogs' = auditLogs
             /\ LevelOf(adminAuthTracker', ip) = LevelOf(adminAuthTracker, ip)
             /\ EntryOf(adminAuthTracker', ip).lastFailTime
                   = EntryOf(adminAuthTracker, ip).lastFailTime
             /\ EntryOf(adminAuthTracker', ip).attempts
                   = RecentAttempts(EntryOf(adminAuthTracker, ip).attempts, now)
             /\ \A d \in CheckDelays :
                   IsAdminRateLimited(adminAuthTracker', ip, now + d)
                      = IsAdminRateLimited(adminAuthTracker, ip, now + d)]_vars
\* invalid input is answered 400 for an identity with failures on record
C36_Witness ==
    /\ resp.op = "login" /\ resp.status = 400 /\ resp.body = "invalid_input"
    /\ resp.ip \in DOMAIN adminAuthTracker
    /\ adminAuthTracker[resp.ip].backoffLevel >= 1
    /\ adminAuthTracker[resp.ip].attempts # <<>>

\* a login reaches the stored settings: it is stopped neither by the
\* rate-limit check nor by the schema
LoginReachesSettings ==
    /\ \E ip \in IPs : LoginEntry(ip)
    /\ ~(req' = req /\ resp'.status \in {429, 400})

(***************************************************************************)
(* C37.  Outside production and with no admin code configured, the first   *)
(* access to the settings bootstraps the credential from the development   *)
(* default: it does not fail, settings are stored afterwards, and the      *)
(* default value verifies against them.                                    *)
(***************************************************************************)
C37_DevelopmentDefaultBootstraps ==
    [][(/\ ~isProduction
        /\ envAdminCode = NoCode
        /\ adminSettings = NoSettings
        /\ LoginReachesSettings)
       => /\ resp'.status # 500
          /\ adminSettings' # NoSettings
          /\ VerifyAdminCode(adminSettings', Admin123)]_vars

====
